---------------------------- MODULE Spec2Model ----------------------------
(***************************************************************************)
(* State-machine model of src/main.py of segonzal/upsegmentation: the      *)
(* epoch loop of main, the train and test phases, the checkpoint store     *)
(* (save_checkpoint / load_checkpoint) and the calls made to the wandb     *)
(* telemetry sink.                                                         *)
(*                                                                         *)
(* Tensors are abstracted to small integers: a batch is identified by its  *)
(* number of samples, the model parameters and the optimizer statistics    *)
(* are integers updated by a deterministic step function.                  *)
(*                                                                         *)
(* Spec            a run of main                                           *)
(* SpecCheckpoint  a caller of save_checkpoint and load_checkpoint         *)
(* SpecResume      a run of main and a second run resumed from one of its  *)
(*                 checkpoints                                             *)
(* SpecCriterion   main at the choice of its optimizer and loss            *)
(***************************************************************************)
EXTENDS Integers, Sequences, FiniteSets, TLC

(* ------------------------------ bounds -------------------------------- *)

\* largest value of the `epochs` argument explored
MaxEpochs == 2

\* largest number of batches a loader yields per phase
MaxBatches == 2

\* largest value of --checkpoint-epoch explored
MaxInterval == 2

\* largest class weight of --balance-classes explored
MaxWeight == 4

(* --------------------------- python values ---------------------------- *)

\* Python's None; an optional value v is Some(v)
None == <<>>

Some(v) == <<v>>

\* Python's a % b for b # 0 (the result takes the sign of the divisor)
PyMod(a, b) == IF b > 0 THEN a % b ELSE -((-a) % (-b))

\* an update that keeps the values d has already (not what the code does)
DictSetDefault(d, u) ==
    [k \in (DOMAIN d) \cup (DOMAIN u) |-> IF k \in DOMAIN d THEN d[k] ELSE u[k]]

\* dict.update: the keys of u overwrite those of d
DictUpdate(d, u) ==
    [k \in (DOMAIN d) \cup (DOMAIN u) |-> IF k \in DOMAIN u THEN u[k] ELSE d[k]]

\* {f"{p}{k}": v for k, v in d.items()}
PrefixKeys(p, d) ==
    [kk \in {p \o k : k \in DOMAIN d} |-> d[CHOOSE k \in DOMAIN d : p \o k = kk]]

\* the empty dict
EmptyDict == [k \in {} |-> 0]

\* f"{epoch:04d}" for a non-negative epoch
Format04d(e) ==
    IF e < 10 THEN "000" \o ToString(e)
    ELSE IF e < 100 THEN "00" \o ToString(e)
    ELSE IF e < 1000 THEN "0" \o ToString(e)
    ELSE ToString(e)

(* ------------------------------ inputs -------------------------------- *)

\* values of the model-name argument: the supported one and an unknown one
ModelNames == {"runet", "unet"}

\* values of --optimizer: the supported one and an unknown one
OptimizerNames == {"adam", "sgd"}

\* values of --save-path
SavePaths == {None, Some("out")}

\* values of --checkpoint-epoch
Intervals == {None} \cup {Some(k) : k \in (-1)..MaxInterval}

\* values of --balance-classes: unset, or two weights (zero and negative
\* ones are accepted by the argument parser)
BalanceClasses ==
    {None} \cup {Some(<<w0, w1>>) : w0 \in (-1)..MaxWeight, w1 \in (-1)..MaxWeight}

\* a batch, identified by len(x), its number of samples
BatchKinds == {1, 2}

\* the metrics the Evaluations object is built with
MetricNames == {"accuracy", "precision", "recall", "f1_score"}

\* the directory wandb.run.dir
WandbRunDir == "wandb_run"

VARIABLES
    args,           \* the arguments of main
    env,            \* the datasets main finds
    pc,             \* position in main
    error,          \* the exception that left main ("" when none)
    save_path,      \* main's save_path after line 203
    epoch,          \* loop variable of main
    batch_idx,      \* batches consumed by the running phase
    batch,          \* the batch last drawn from a loader
    train_loader,   \* batch -> how many of it the train loader has yet to yield
    model,          \* model.state_dict()
    optimizer,      \* optimizer.state_dict()
    evaluations,    \* running state of the Evaluations object
    phase_log,      \* log_data of train / test
    predictions,    \* predictions of test
    train_log,      \* main's train_log
    test_log,       \* main's test_log
    log_data,       \* main's log_data
    files,          \* the files written below save_path
    trace,          \* every call and batch so far, in order
    wandb_log,      \* the record last given to wandb.log
    phase_losses,   \* losses of the batches of the running train phase
    criterion,      \* the loss main selected (None before line 248)
    r_pc,           \* position of a caller of load_checkpoint
    r_model,        \* the caller's model state
    r_optimizer,    \* the caller's optimizer state
    r_epoch,        \* the caller's next epoch
    r_idx,          \* batches the caller consumed in r_epoch
    r_ret,          \* what load_checkpoint gave the caller
    r_name,         \* the name the caller gave load_checkpoint
    saved           \* name -> the arguments save_checkpoint last got for it

vars == <<args, env, pc, error, save_path, epoch, batch_idx, batch,
          train_loader, model,
          optimizer, evaluations, phase_log, predictions, train_log, test_log,
          log_data, files, trace, wandb_log, phase_losses, criterion,
          r_pc, r_model, r_optimizer, r_epoch, r_idx, r_ret, r_name, saved>>

\* the variables of a caller of load_checkpoint
rvars == <<r_pc, r_model, r_optimizer, r_epoch, r_idx, r_ret, r_name, saved>>

\* the variables of the train and test phases
phasevars == <<batch_idx, batch, train_loader, evaluations, phase_log,
               predictions,
               train_log, test_log, log_data, phase_losses>>

(* ------------------------- model and optimizer ------------------------ *)

\* a freshly constructed RUNet
InitialModel == 0

\* a freshly constructed Adam optimizer
InitialOptimizer == [step |-> 0, exp_avg |-> 0]

\* the gradient loss.backward() leaves for batch b
Grad(m, b) == b

\* loss.item() of criterion(model(x), one_hot_yt)
Loss(m, b) == b + (m % 2)

\* an update that counts as two steps (not what the code does)
OptimizerStepTwice(m, o, b) ==
    [step |-> o.step + 2, exp_avg |-> o.exp_avg + Grad(m, b)]

\* optimizer.step(): the optimizer statistics after the update
OptimizerStep(m, o, b) ==
    [step |-> o.step + 1, exp_avg |-> o.exp_avg + Grad(m, b)]

\* optimizer.step(): the parameters after the update
ModelStep(m, o, b) == m + OptimizerStep(m, o, b).exp_avg

(* ----------------------------- Evaluations ---------------------------- *)

\* evaluation.reset()
EvalReset == [seen |-> 0, hits |-> 0]

\* the running state after evaluation(yt, yp) on batch b
EvalUpdate(st, b) == [seen |-> st.seen + b, hits |-> st.hits + 1]

\* the cumulative metric mapping evaluation(yt, yp) returns
EvalMetrics(st) ==
    [k \in MetricNames |-> IF k = "accuracy" THEN st.hits ELSE st.seen]

(* --------------------------- checkpoint store ------------------------- *)

\* one file for every checkpoint, whatever its name (not what the code does)
CheckpointFileFixed(path, name) == path \o "/checkpoint.pth"

\* path / f'{name}.pth'
CheckpointFile(path, name) == path \o "/" \o name \o ".pth"

\* a checkpoint name without the epoch (not what the code does)
CheckpointNameNoEpoch(mname, e) == mname \o "-checkpoint.pth"

\* the name main gives save_checkpoint
CheckpointName(mname, e) == mname \o "-checkpoint-" \o Format04d(e) \o ".pth"

\* save_path / f"{model_name}.pth"
FinalModelFile(path, mname) == path \o "/" \o mname \o ".pth"

\* torch.save(obj, file)
TorchSave(fs, file, obj) ==
    [f \in (DOMAIN fs) \cup {file} |-> IF f = file THEN obj ELSE fs[f]]

\* a record whose optimizer state is not the one passed in (not what the
\* code does)
CheckpointRecordStale(m, o, e) ==
    [epoch |-> e, model_state_dict |-> m,
     optimizer_state_dict |-> InitialOptimizer]

\* the dict save_checkpoint serialises
CheckpointRecord(m, o, e) ==
    [epoch |-> e, model_state_dict |-> m, optimizer_state_dict |-> o]

\* save_checkpoint: the files afterwards
SaveCheckpoint(fs, m, o, e, path, name) ==
    TorchSave(fs, CheckpointFile(path, name), CheckpointRecord(m, o, e))

\* the model state load_checkpoint leaves, given the record read
LoadedModel(m, checkpoint) == checkpoint.model_state_dict

\* a load that restores the weights only (not what the code does)
LoadedOptimizerKept(o, checkpoint) == o

\* the optimizer state load_checkpoint leaves, given the record read
LoadedOptimizer(o, checkpoint) == checkpoint.optimizer_state_dict

\* a load that starts from scratch when the file is missing (not what the
\* code does)
LoadCheckpointOrFresh(fs, m, o, path, name) ==
    LET file == CheckpointFile(path, name) IN
    IF file \in DOMAIN fs
    THEN [raised |-> "",
          model |-> LoadedModel(m, fs[file]),
          optimizer |-> LoadedOptimizer(o, fs[file]),
          epoch |-> Some(fs[file].epoch)]
    ELSE [raised |-> "", model |-> InitialModel, optimizer |-> InitialOptimizer,
          epoch |-> Some(-1)]

\* load_checkpoint: torch.load raises when the file does not exist
LoadCheckpoint(fs, m, o, path, name) ==
    LET file == CheckpointFile(path, name) IN
    IF file \in DOMAIN fs
    THEN [raised |-> "",
          model |-> LoadedModel(m, fs[file]),
          optimizer |-> LoadedOptimizer(o, fs[file]),
          epoch |-> Some(fs[file].epoch)]
    ELSE [raised |-> "FileNotFoundError", model |-> m, optimizer |-> o,
          epoch |-> None]

(* -------------------------------- trace ------------------------------- *)

\* one entry of the trace
Event(op, e, i) == [op |-> op, epoch |-> e, idx |-> i]

\* the calls made to the telemetry sink
SinkOps == {"login", "init", "log", "finish"}

(* ------------------------------- main --------------------------------- *)

Init ==
    /\ args \in [epochs : 0..MaxEpochs,
                 model_name : ModelNames,
                 optimizer : OptimizerNames,
                 checkpoint_epoch : Intervals,
                 save_path : SavePaths,
                 balance_classes : {None}]
    /\ env \in [train_dir : BOOLEAN, test_dir : BOOLEAN,
                n_train : 0..MaxBatches, n_test : 0..MaxBatches]
    /\ pc = "login"
    /\ error = ""
    /\ save_path = args.save_path
    /\ epoch = 0
    /\ batch_idx = 0
    /\ batch = 0
    /\ train_loader = [b \in BatchKinds |-> 0]
    /\ model = InitialModel
    /\ optimizer = InitialOptimizer
    /\ evaluations = EvalReset
    /\ phase_log = EmptyDict
    /\ predictions = <<>>
    /\ train_log = EmptyDict
    /\ test_log = EmptyDict
    /\ log_data = EmptyDict
    /\ files = EmptyDict
    /\ trace = <<>>
    /\ wandb_log = EmptyDict
    /\ phase_losses = <<>>
    /\ criterion = None
    /\ r_pc = "idle"
    /\ r_model = InitialModel
    /\ r_optimizer = InitialOptimizer
    /\ r_epoch = 0
    /\ r_idx = 0
    /\ r_ret = None
    /\ r_name = ""
    /\ saved = EmptyDict

\* an exception that is caught and passed over (not what the code does)
RaiseSwallowed(exc) ==
    /\ pc' = pc
    /\ error' = exc

\* leave main with an exception
Raise(exc) ==
    /\ pc' = "aborted"
    /\ error' = exc

\* line 178: wandb.login()
Login ==
    /\ pc = "login"
    /\ trace' = Append(trace, Event("login", -1, -1))
    /\ pc' = "init"
    /\ UNCHANGED <<args, env, error, save_path, epoch, model, optimizer, files,
                   wandb_log, phasevars, rvars, criterion>>

\* lines 202-203: the save path main uses
ResolveSavePath(given, has_run) ==
    IF given = None /\ has_run THEN Some(WandbRunDir) ELSE given

\* lines 180-216: wandb.init, the save path, the seeds; wandb.run is None
\* when wandb is disabled
WandbInit ==
    /\ pc = "init"
    /\ trace' = Append(trace, Event("init", -1, -1))
    /\ \E has_run \in BOOLEAN :
        save_path' = ResolveSavePath(save_path, has_run)
    /\ pc' = "create_model"
    /\ UNCHANGED <<args, env, error, epoch, model, optimizer, files,
                   wandb_log, phasevars, rvars, criterion>>

\* line 218: the model names main knows
KnownModel(name) == name = "runet"

\* a selection that falls back to Adam for any name (not what the code does)
AnyOptimizer(name) == TRUE

\* line 243: the optimizer names main knows
KnownOptimizer(name) == name = "adam"

\* lines 218-224: the model, or ValueError for an unknown name
CreateModel ==
    /\ pc = "create_model"
    /\ IF KnownModel(args.model_name)
       THEN /\ model' = InitialModel
            /\ pc' = "check_data"
            /\ error' = error
       ELSE /\ Raise("ValueError")
            /\ model' = model
    /\ UNCHANGED <<args, env, save_path, epoch, optimizer, files, trace,
                   wandb_log, phasevars, rvars, criterion>>

\* lines 226-241: the dataset directories, the datasets and the loaders
CheckData ==
    /\ pc = "check_data"
    /\ IF env.train_dir /\ env.test_dir
       THEN /\ pc' = "create_optimizer"
            /\ error' = error
       ELSE Raise("Exception")
    /\ UNCHANGED <<args, env, save_path, epoch, model, optimizer, files, trace,
                   wandb_log, phasevars, rvars, criterion>>

\* the quotient a / b of two numbers, kept exact; b = 0 stands for the
\* non-finite value float division gives
Frac(a, b) == [num |-> a, den |-> b]

\* sum(balance_classes)
SumWeights(w) == w[1] + w[2]

\* class weights passed on as they were given (not what the code does)
RawWeights(w) == <<Frac(w[1], 1), Frac(w[2], 1)>>

\* line 251: torch.tensor(balance_classes) / sum(balance_classes)
ClassWeights(w) == <<Frac(w[1], SumWeights(w)), Frac(w[2], SumWeights(w))>>

\* lines 248-251: the criterion for a value of --balance-classes
Criterion(bc) ==
    IF bc = None
    THEN [kind |-> "BCEWithLogitsLoss", weight |-> None]
    ELSE [kind |-> "CrossEntropyLoss", weight |-> Some(ClassWeights(bc[1]))]

\* lines 243-258: the optimizer (or ValueError), the criterion, the metrics
CreateOptimizer ==
    /\ pc = "create_optimizer"
    /\ IF KnownOptimizer(args.optimizer)
       THEN /\ optimizer' = InitialOptimizer
            /\ criterion' = Some(Criterion(args.balance_classes))
            /\ pc' = "epoch"
            /\ error' = error
       ELSE /\ Raise("ValueError")
            /\ UNCHANGED <<optimizer, criterion>>
    /\ UNCHANGED <<args, env, save_path, epoch, model, files, trace,
                   wandb_log, phasevars, rvars>>

(* ----------------------------- the phases ----------------------------- *)

\* a loop that stops one batch early (not what the code does)
HasNextButLast(idx, n) == idx < n - 1

\* a `for ... in loader` loop that consumed idx of n batches has a next one
HasNext(idx, n) == idx < n

\* line 60: log_data of a starting train phase
TrainLogStart == [k \in {"loss"} |-> 0]

\* a summary that keeps the last batch loss only (not what the code does)
SetLoss(d, l) == [d EXCEPT !["loss"] = l]

\* line 78: log_data['loss'] += batch_loss
AddLoss(d, l) == [d EXCEPT !["loss"] = @ + l]

\* line 240: the n batches of the training set, one of them of a single
\* sample; the train loader shuffles, so an epoch yields them in any order
TrainData(n) ==
    [b \in BatchKinds |-> IF n = 0 THEN 0 ELSE IF b = 1 THEN 1 ELSE n - 1]

\* lines 261-264, 59-63: the next epoch starts with its train phase
TrainBegin ==
    /\ pc = "epoch"
    /\ epoch < args.epochs
    /\ log_data' = EmptyDict
    /\ evaluations' = EvalReset
    /\ phase_log' = TrainLogStart
    /\ batch_idx' = 0
    /\ train_loader' = TrainData(env.n_train)
    /\ phase_losses' = <<>>
    /\ trace' = Append(trace, Event("train_begin", epoch, -1))
    /\ pc' = "train"
    /\ UNCHANGED <<args, env, error, save_path, epoch, batch, model, optimizer,
                   predictions, train_log, test_log, files, wandb_log, rvars, criterion>>

\* lines 64-82: one training batch
TrainBatch ==
    /\ pc = "train"
    /\ HasNext(batch_idx, env.n_train)
    /\ \E b \in BatchKinds :
        LET st == EvalUpdate(evaluations, b) IN
        /\ train_loader[b] > 0
        /\ train_loader' = [train_loader EXCEPT ![b] = @ - 1]
        /\ batch' = b
        /\ optimizer' = OptimizerStep(model, optimizer, b)
        /\ model' = ModelStep(model, optimizer, b)
        /\ evaluations' = st
        /\ phase_log' = DictUpdate(AddLoss(phase_log, Loss(model, b)),
                                   EvalMetrics(st))
        /\ phase_losses' = Append(phase_losses, Loss(model, b))
    /\ trace' = Append(trace, Event("train_batch", epoch, batch_idx))
    /\ batch_idx' = batch_idx + 1
    /\ UNCHANGED <<args, env, pc, error, save_path, epoch, predictions,
                   train_log, test_log, log_data, files, wandb_log, rvars, criterion>>

\* lines 64-82: a training batch raises; the optimizer may have stepped
TrainBatchFails ==
    /\ pc = "train"
    /\ HasNext(batch_idx, env.n_train)
    /\ \E b \in BatchKinds, stepped \in BOOLEAN :
        /\ train_loader[b] > 0
        /\ train_loader' = [train_loader EXCEPT ![b] = @ - 1]
        /\ batch' = b
        /\ optimizer' = IF stepped THEN OptimizerStep(model, optimizer, b)
                        ELSE optimizer
        /\ model' = IF stepped THEN ModelStep(model, optimizer, b) ELSE model
    /\ Raise("RuntimeError")
    /\ trace' = Append(trace, Event("batch_failed", epoch, batch_idx))
    /\ UNCHANGED <<args, env, save_path, epoch, batch_idx, evaluations,
                   phase_log, predictions, train_log, test_log, log_data,
                   files, wandb_log, phase_losses, rvars, criterion>>

\* line 83: train returns its log_data
TrainReturn ==
    /\ pc = "train"
    /\ ~HasNext(batch_idx, env.n_train)
    /\ train_log' = phase_log
    /\ trace' = Append(trace, Event("train_end", epoch, -1))
    /\ pc' = "test_begin"
    /\ UNCHANGED <<args, env, error, save_path, epoch, batch_idx, batch,
                   train_loader, model,
                   optimizer, evaluations, phase_log, predictions, test_log,
                   log_data, files, wandb_log, phase_losses, rvars, criterion>>

\* a test phase that goes on with the accumulator as train left it (not what
\* the code does)
TestBeginNoReset ==
    /\ pc = "test_begin"
    /\ phase_log' = EmptyDict
    /\ predictions' = <<>>
    /\ batch_idx' = 0
    /\ trace' = Append(trace, Event("test_begin", epoch, -1))
    /\ pc' = "test"
    /\ UNCHANGED <<args, env, error, save_path, epoch, batch, train_loader,
                   model, optimizer, evaluations, train_log, test_log,
                   log_data, files, wandb_log, phase_losses, rvars, criterion>>

\* lines 265, 90-96: the test phase starts
TestBegin ==
    /\ pc = "test_begin"
    /\ evaluations' = EvalReset
    /\ phase_log' = EmptyDict
    /\ predictions' = <<>>
    /\ batch_idx' = 0
    /\ trace' = Append(trace, Event("test_begin", epoch, -1))
    /\ pc' = "test"
    /\ UNCHANGED <<args, env, error, save_path, epoch, batch, train_loader, model,
                   optimizer,
                   train_log, test_log, log_data, files, wandb_log,
                   phase_losses, rvars, criterion>>

\* artifacts captured for every batch (not what the code does)
CapturedEveryBatch(idx, b) ==
    [img_idx \in 1..b |-> [caption |-> idx + (img_idx - 1),
                           sample |-> img_idx - 1]]

\* lines 103-121: the artifacts test captures for the batch with index idx
Captured(idx, b) ==
    IF idx = 0
    THEN [img_idx \in 1..b |-> [caption |-> idx + (img_idx - 1),
                                sample |-> img_idx - 1]]
    ELSE <<>>

\* line 241: the test loader does not shuffle, so every epoch sees the same
\* batches; every batch is full but the last one
TestData(idx, n) == IF idx + 1 = n THEN 1 ELSE 2

\* lines 97-123: one test batch
TestBatch ==
    /\ pc = "test"
    /\ HasNext(batch_idx, env.n_test)
    /\ LET b == TestData(batch_idx, env.n_test)
           st == EvalUpdate(evaluations, b) IN
        /\ batch' = b
        /\ evaluations' = st
        /\ phase_log' = DictUpdate(phase_log, EvalMetrics(st))
        /\ predictions' = predictions \o Captured(batch_idx, b)
    /\ trace' = Append(trace, Event("test_batch", epoch, batch_idx))
    /\ batch_idx' = batch_idx + 1
    /\ UNCHANGED <<args, env, pc, error, save_path, epoch, train_loader, model,
                   optimizer,
                   train_log, test_log, log_data, files, wandb_log,
                   phase_losses, rvars, criterion>>

\* lines 97-123: a test batch raises
TestBatchFails ==
    /\ pc = "test"
    /\ HasNext(batch_idx, env.n_test)
    /\ batch' = TestData(batch_idx, env.n_test)
    /\ Raise("RuntimeError")
    /\ trace' = Append(trace, Event("batch_failed", epoch, batch_idx))
    /\ UNCHANGED <<args, env, save_path, epoch, batch_idx, train_loader,
                   model, optimizer,
                   evaluations, phase_log, predictions, train_log, test_log,
                   log_data, files, wandb_log, phase_losses, rvars, criterion>>

\* lines 267-268: main's log_data from the two phase summaries
MergeLogs(d, trn, tst) ==
    DictUpdate(DictUpdate(d, PrefixKeys("train_", trn)), PrefixKeys("test_", tst))

\* lines 124-125, 267-270: test returns, main merges the two summaries
TestReturn ==
    /\ pc = "test"
    /\ ~HasNext(batch_idx, env.n_test)
    /\ LET result == DictUpdate(phase_log,
                                [k \in {"prediction"} |-> predictions]) IN
        /\ phase_log' = result
        /\ test_log' = result
        /\ log_data' = MergeLogs(log_data, train_log, result)
    /\ trace' = Append(trace, Event("test_end", epoch, -1))
    /\ pc' = "checkpoint"
    /\ UNCHANGED <<args, env, error, save_path, epoch, batch_idx, batch,
                   train_loader, model,
                   optimizer, evaluations, predictions, train_log, files,
                   wandb_log, phase_losses, rvars, criterion>>

(* ------------------------ checkpoints and logging --------------------- *)

\* a cadence that saves at epochs 0, k, 2k, ... (not what the code does)
CadenceAtMultiples(e, interval) == PyMod(e, interval) = 0

\* line 272, past `save_path and checkpoint_epoch is not None`
CadenceHolds(e, interval) == PyMod(e, interval) = interval - 1

\* a condition that passes over an interval of 0 (not what the code does)
CadenceEvaluatedNonZero(sp, ce) == sp # None /\ ce # None /\ ce # Some(0)

\* line 272: the condition is evaluated at all (and divides by the interval)
CadenceEvaluated(sp, ce) == sp # None /\ ce # None

\* lines 272-273: save_checkpoint when due; ZeroDivisionError for interval 0
Checkpoint ==
    /\ pc = "checkpoint"
    /\ IF CadenceEvaluated(save_path, args.checkpoint_epoch)
       THEN IF args.checkpoint_epoch[1] = 0
            THEN /\ Raise("ZeroDivisionError")
                 /\ UNCHANGED <<files, trace>>
            ELSE IF CadenceHolds(epoch, args.checkpoint_epoch[1])
                 THEN /\ files' = SaveCheckpoint(files, model, optimizer, epoch,
                                     save_path[1],
                                     CheckpointName(args.model_name, epoch))
                      /\ trace' = Append(trace,
                                     Event("save_checkpoint", epoch, -1))
                      /\ pc' = "log"
                      /\ error' = error
                 ELSE /\ pc' = "log"
                      /\ UNCHANGED <<error, files, trace>>
       ELSE /\ pc' = "log"
            /\ UNCHANGED <<error, files, trace>>
    /\ UNCHANGED <<args, env, save_path, epoch, model, optimizer, wandb_log,
                   phasevars, rvars, criterion>>

\* an epoch that emits its record twice (not what the code does)
LogTwice ==
    /\ pc = "log"
    /\ wandb_log' = log_data
    /\ trace' = trace \o <<Event("log", epoch, -1), Event("log", epoch, -1)>>
    /\ epoch' = epoch + 1
    /\ pc' = "epoch"
    /\ UNCHANGED <<args, env, error, save_path, model, optimizer, files,
                   phasevars, rvars, criterion>>

\* line 275: wandb.log(log_data); the loop goes on to the next epoch
Log ==
    /\ pc = "log"
    /\ wandb_log' = log_data
    /\ trace' = Append(trace, Event("log", epoch, -1))
    /\ epoch' = epoch + 1
    /\ pc' = "epoch"
    /\ UNCHANGED <<args, env, error, save_path, model, optimizer, files,
                   phasevars, rvars, criterion>>

\* a final artifact that is a full checkpoint (not what the code does)
FinalCheckpointRecord(m) == CheckpointRecord(m, optimizer, epoch)

\* what line 278 serialises: the model's state_dict alone
FinalModelRecord(m) == [model_state_dict |-> m]

\* line 277: whether the final model is written
FinalSaveDue(sp) == sp # None

\* a final save that falls back to the working directory (not what the code
\* does)
SaveModelAnyway ==
    /\ pc = "epoch"
    /\ ~(epoch < args.epochs)
    /\ files' = TorchSave(files,
                    FinalModelFile(IF save_path = None THEN "." ELSE save_path[1],
                                   args.model_name),
                    FinalModelRecord(model))
    /\ trace' = Append(trace, Event("save_model", -1, -1))
    /\ pc' = "finish"
    /\ UNCHANGED <<args, env, error, save_path, epoch, model, optimizer,
                   wandb_log, phasevars, rvars, criterion>>

\* lines 277-278: after the loop, the final model when there is a save path
SaveModel ==
    /\ pc = "epoch"
    /\ ~(epoch < args.epochs)
    /\ IF FinalSaveDue(save_path)
       THEN /\ files' = TorchSave(files,
                            FinalModelFile(save_path[1], args.model_name),
                            FinalModelRecord(model))
            /\ trace' = Append(trace, Event("save_model", -1, -1))
       ELSE UNCHANGED <<files, trace>>
    /\ pc' = "finish"
    /\ UNCHANGED <<args, env, error, save_path, epoch, model, optimizer,
                   wandb_log, phasevars, rvars, criterion>>

\* line 280: wandb.finish()
Finish ==
    /\ pc = "finish"
    /\ trace' = Append(trace, Event("finish", -1, -1))
    /\ pc' = "done"
    /\ UNCHANGED <<args, env, error, save_path, epoch, model, optimizer, files,
                   wandb_log, phasevars, rvars, criterion>>

Next ==
    \/ Login
    \/ WandbInit
    \/ CreateModel
    \/ CheckData
    \/ CreateOptimizer
    \/ TrainBegin
    \/ TrainBatch
    \/ TrainBatchFails
    \/ TrainReturn
    \/ TestBegin
    \/ TestBatch
    \/ TestBatchFails
    \/ TestReturn
    \/ Checkpoint
    \/ Log
    \/ SaveModel
    \/ Finish

Spec == Init /\ [][Next]_vars

(* ------------------- callers of the checkpoint store ------------------ *)

\* the variables of main that a caller of the checkpoint store leaves alone
mainvars == <<args, env, pc, save_path, epoch, batch_idx, train_loader,
              evaluations,
              phase_log, predictions, train_log, test_log, log_data, trace,
              wandb_log, phase_losses, criterion>>

\* checkpoint names a caller uses; main's own names end in ".pth" already
CallerNames == {"x", "x.pth"}

\* the directory a caller saves to and loads from
CallerPath == "ckpt"

\* the batches a caller trains on between its saves
CallerBatches == <<1, 2>>

\* a caller of save_checkpoint and load_checkpoint: one model and optimizer
\* it trains and saves, another one it loads into
InitCaller ==
    /\ args = [epochs |-> 0, model_name |-> "runet", optimizer |-> "adam",
               checkpoint_epoch |-> None, save_path |-> Some(CallerPath),
               balance_classes |-> None]
    /\ env = [train_dir |-> TRUE, test_dir |-> TRUE, n_train |-> 0,
              n_test |-> 0]
    /\ pc = "caller"
    /\ error = ""
    /\ save_path = Some(CallerPath)
    /\ epoch = 0
    /\ batch_idx = 0
    /\ batch = 0
    /\ train_loader = [b \in BatchKinds |-> 0]
    /\ model = InitialModel
    /\ optimizer = InitialOptimizer
    /\ evaluations = EvalReset
    /\ phase_log = EmptyDict
    /\ predictions = <<>>
    /\ train_log = EmptyDict
    /\ test_log = EmptyDict
    /\ log_data = EmptyDict
    /\ files = EmptyDict
    /\ trace = <<>>
    /\ wandb_log = EmptyDict
    /\ phase_losses = <<>>
    /\ criterion = None
    /\ r_pc = "idle"
    /\ r_model = InitialModel
    /\ r_optimizer = InitialOptimizer
    /\ r_epoch = 0
    /\ r_idx = 0
    /\ r_ret = None
    /\ r_name = ""
    /\ saved = EmptyDict

\* lines 71-75: the caller trains its model on its next batch
CallerTrain ==
    /\ pc = "caller"
    /\ r_pc = "idle"
    /\ optimizer.step < Len(CallerBatches)
    /\ LET b == CallerBatches[optimizer.step + 1] IN
        /\ batch' = b
        /\ optimizer' = OptimizerStep(model, optimizer, b)
        /\ model' = ModelStep(model, optimizer, b)
    /\ UNCHANGED <<mainvars, error, files, rvars>>

\* lines 23-36: save_checkpoint(model, optimizer, e, path, n)
CallerSave ==
    /\ pc = "caller"
    /\ r_pc = "idle"
    /\ \E e \in 0..MaxEpochs, n \in CallerNames :
        /\ files' = SaveCheckpoint(files, model, optimizer, e, CallerPath, n)
        /\ saved' = DictUpdate(saved,
                        [k \in {n} |-> [m |-> model, o |-> optimizer, e |-> e]])
    /\ UNCHANGED <<mainvars, error, batch, model, optimizer, r_pc, r_model,
                   r_optimizer, r_epoch, r_idx, r_ret, r_name>>

\* lines 39-49: load_checkpoint(r_model, r_optimizer, path, n)
CallerLoad ==
    /\ pc = "caller"
    /\ r_pc = "idle"
    /\ \E n \in CallerNames :
        LET res == LoadCheckpoint(files, r_model, r_optimizer, CallerPath, n) IN
        /\ r_name' = n
        /\ r_model' = res.model
        /\ r_optimizer' = res.optimizer
        /\ r_ret' = res.epoch
        /\ error' = res.raised
        /\ r_pc' = IF res.raised = "" THEN "loaded" ELSE "raised"
    /\ UNCHANGED <<mainvars, batch, model, optimizer, files, r_epoch, r_idx,
                   saved>>

\* the caller has seen what load_checkpoint gave it or raised
CallerGoesOn ==
    /\ pc = "caller"
    /\ r_pc \in {"loaded", "raised"}
    /\ r_pc' = "idle"
    /\ error' = ""
    /\ UNCHANGED <<mainvars, batch, model, optimizer, files, r_model,
                   r_optimizer, r_epoch, r_idx, r_ret, r_name, saved>>

NextCaller ==
    \/ CallerTrain
    \/ CallerSave
    \/ CallerLoad
    \/ CallerGoesOn

SpecCheckpoint == InitCaller /\ [][NextCaller]_vars

(* --------------------------- a resumed run ---------------------------- *)

\* A second run that is started from a checkpoint of the first: it loads the
\* checkpoint main has just written for its epoch and goes on with the next
\* epoch, training on the batches the first run draws.

\* lines 39-49: the resumed run loads the checkpoint of the epoch that ends
ResumeLoad ==
    /\ r_pc = "idle"
    /\ pc = "log"
    /\ save_path # None
    /\ CheckpointFile(save_path[1], CheckpointName(args.model_name, epoch))
           \in DOMAIN files
    /\ LET name == CheckpointName(args.model_name, epoch)
           res == LoadCheckpoint(files, r_model, r_optimizer, save_path[1], name)
       IN
        /\ r_name' = name
        /\ r_model' = res.model
        /\ r_optimizer' = res.optimizer
        /\ r_ret' = res.epoch
        /\ r_epoch' = res.epoch[1] + 1
        /\ r_idx' = 0
        /\ r_pc' = "resumed"
    /\ UNCHANGED <<mainvars, error, batch, model, optimizer, files, saved>>

\* lines 64-82: the resumed run trains on the batch the first run has just
\* drawn at the same place of the same epoch
ResumeTrainBatch ==
    /\ r_pc = "resumed"
    /\ pc = "train"
    /\ epoch = r_epoch
    /\ batch_idx = r_idx + 1
    /\ r_optimizer' = OptimizerStep(r_model, r_optimizer, batch)
    /\ r_model' = ModelStep(r_model, r_optimizer, batch)
    /\ r_idx' = r_idx + 1
    /\ UNCHANGED <<mainvars, error, batch, model, optimizer, files, r_pc,
                   r_epoch, r_ret, r_name, saved>>

\* lines 261-264: the resumed run goes on to its next epoch
ResumeNextEpoch ==
    /\ r_pc = "resumed"
    /\ r_epoch < args.epochs
    /\ ~HasNext(r_idx, env.n_train)
    /\ r_epoch' = r_epoch + 1
    /\ r_idx' = 0
    /\ UNCHANGED <<mainvars, error, batch, model, optimizer, files, r_pc,
                   r_model, r_optimizer, r_ret, r_name, saved>>

NextResume ==
    \/ Next
    \/ ResumeLoad
    \/ ResumeTrainBatch
    \/ ResumeNextEpoch

SpecResume == Init /\ [][NextResume]_vars

(* ----------------------- the choice of the loss ----------------------- *)

\* main at line 243, for every value of --optimizer and --balance-classes
InitCriterion ==
    /\ args \in [epochs : {0},
                 model_name : {"runet"},
                 optimizer : OptimizerNames,
                 checkpoint_epoch : {None},
                 save_path : {None},
                 balance_classes : BalanceClasses]
    /\ env = [train_dir |-> TRUE, test_dir |-> TRUE, n_train |-> 0,
              n_test |-> 0]
    /\ pc = "create_optimizer"
    /\ error = ""
    /\ save_path = None
    /\ epoch = 0
    /\ batch_idx = 0
    /\ batch = 0
    /\ train_loader = [b \in BatchKinds |-> 0]
    /\ model = InitialModel
    /\ optimizer = InitialOptimizer
    /\ evaluations = EvalReset
    /\ phase_log = EmptyDict
    /\ predictions = <<>>
    /\ train_log = EmptyDict
    /\ test_log = EmptyDict
    /\ log_data = EmptyDict
    /\ files = EmptyDict
    /\ trace = <<Event("login", -1, -1), Event("init", -1, -1)>>
    /\ wandb_log = EmptyDict
    /\ phase_losses = <<>>
    /\ criterion = None
    /\ r_pc = "idle"
    /\ r_model = InitialModel
    /\ r_optimizer = InitialOptimizer
    /\ r_epoch = 0
    /\ r_idx = 0
    /\ r_ret = None
    /\ r_name = ""
    /\ saved = EmptyDict

SpecCriterion == InitCriterion /\ [][CreateOptimizer]_vars

(* ============================ properties ============================== *)

\* the last element of a non-empty sequence
Last(s) == s[Len(s)]

\* s is an initial part of t
IsPrefix(s, t) == Len(s) <= Len(t) /\ SubSeq(t, 1, Len(s)) = s

\* the indices of the trace entries with operation op
At(op) == {i \in 1..Len(trace) : trace[i].op = op}

\* the indices of the trace entries with operation op of epoch e
AtEpoch(op, e) == {i \in At(op) : trace[i].epoch = e}

(* ------------------------------- C1 ----------------------------------- *)

\* the trace entries of phases and batches
PhaseOps == {"train_begin", "train_batch", "train_end",
             "test_begin", "test_batch", "test_end"}

PhaseTrace == SelectSeq(trace, LAMBDA ev : ev.op \in PhaseOps)

\* a phase of epoch e over n batches: its start, its batches in order, its end
PhaseEvents(name, e, n) ==
    <<Event(name \o "_begin", e, -1)>>
    \o [i \in 1..n |-> Event(name \o "_batch", e, i - 1)]
    \o <<Event(name \o "_end", e, -1)>>

RECURSIVE ExpectedRun(_, _, _)
\* E epochs, each a full train phase followed by a full test phase
ExpectedRun(E, nTrain, nTest) ==
    IF E = 0 THEN <<>>
    ELSE ExpectedRun(E - 1, nTrain, nTest)
         \o PhaseEvents("train", E - 1, nTrain)
         \o PhaseEvents("test", E - 1, nTest)

\* C1: a run of E epochs executes exactly E train and E test phases,
\* alternating and starting with train, each phase consuming all its batches
\* in order before the next phase starts: at every moment the phases and
\* batches so far are an initial part of that sequence, and a run that ends
\* without failure has executed all of it.
C1_PhasesAlternate ==
    LET expected == ExpectedRun(args.epochs, env.n_train, env.n_test) IN
    /\ IsPrefix(PhaseTrace, expected)
    /\ pc \in {"finish", "done"} => PhaseTrace = expected

C1_Witness ==
    /\ pc = "done"
    /\ args.epochs >= 2
    /\ env.n_train >= 2
    /\ env.n_test >= 2
    /\ Len(PhaseTrace) >= 16

(* ------------------------------- C2 ----------------------------------- *)

\* epoch e has passed line 273: its checkpoint decision has been taken
EpochEnded(e) == (pc = "log" /\ epoch = e) \/ AtEpoch("log", e) # {}

\* save_checkpoint was called for epoch e
CheckpointSaved(e) == AtEpoch("save_checkpoint", e) # {}

\* an interval is configured and e mod interval = interval - 1
IntervalDue(e) ==
    /\ args.checkpoint_epoch # None
    /\ args.checkpoint_epoch[1] # 0
    /\ PyMod(e, args.checkpoint_epoch[1]) = args.checkpoint_epoch[1] - 1

\* C2 as stated: save_checkpoint is called at the end of epoch e if and only
\* if a checkpoint interval is configured and e mod interval = interval - 1.
C2_Original ==
    \A e \in 0..MaxEpochs : EpochEnded(e) => (CheckpointSaved(e) <=> IntervalDue(e))

\* C2 (amended): save_checkpoint is called at the end of epoch e if and only
\* if a save path is available, a checkpoint interval is configured and
\* e mod interval = interval - 1; it is called at most once per epoch and for
\* no epoch that has not ended; so no checkpoint is written for epoch 0 unless
\* the interval is 1, and none at all when the interval is unset.
C2_CheckpointCadence ==
    /\ \A e \in 0..MaxEpochs :
        /\ EpochEnded(e) =>
            (CheckpointSaved(e) <=> (save_path # None /\ IntervalDue(e)))
        /\ CheckpointSaved(e) => EpochEnded(e)
        /\ Cardinality(AtEpoch("save_checkpoint", e)) <= 1
    /\ CheckpointSaved(0) => args.checkpoint_epoch = Some(1)
    /\ args.checkpoint_epoch = None => At("save_checkpoint") = {}

C2_Witness ==
    /\ pc = "done"
    /\ args.checkpoint_epoch = Some(2)
    /\ ~CheckpointSaved(0)
    /\ CheckpointSaved(1)

(* ------------------------------- C3 ----------------------------------- *)

\* main raised for a missing dataset directory
DatasetMissing == pc = "aborted" /\ error = "Exception"

\* C3 as stated: with a dataset directory missing, main raises before any
\* batch is processed and before any checkpoint call or telemetry-sink call
\* (login, init, log, finish) has occurred.
C3_FailFastBeforeSink ==
    DatasetMissing =>
        /\ At("train_batch") \cup At("test_batch") = {}
        /\ At("save_checkpoint") = {}
        /\ \A i \in 1..Len(trace) : trace[i].op \notin SinkOps

(* ------------------------------- C4 ----------------------------------- *)

\* the state part of C4: a failed batch is the last thing the run did
BatchFailureIsFinal ==
    \A i \in At("batch_failed") :
        /\ i = Len(trace)
        /\ pc = "aborted"
        /\ AtEpoch("log", trace[i].epoch) = {}
        /\ AtEpoch("save_checkpoint", trace[i].epoch) = {}
        /\ At("save_model") \cup At("finish") = {}
        /\ \A f \in DOMAIN files : DOMAIN files[f] # {"model_state_dict"}

\* C4: a failure inside a batch of train or test is not caught: the run is
\* aborted, the failed batch stays the last entry of the trace (no further
\* batch, no retry, no log record of that epoch, no checkpoint, no final
\* model, no finish), and an aborted run never takes another step.
C4_BatchFailureAborts ==
    /\ []BatchFailureIsFinal
    /\ [][pc # "aborted"]_vars

C4_Witness ==
    /\ At("batch_failed") # {}
    /\ pc = "aborted"
    /\ error = "RuntimeError"
    /\ epoch = 1
    /\ trace[Len(trace)].idx = 1

(* ------------------------------- C5 ----------------------------------- *)

\* C5: load_checkpoint under a name returns the epoch last saved under that
\* name and leaves the model and the optimizer in the states that were saved
\* with it, whatever was trained or saved under other names in between.
C5_CheckpointRoundTrip ==
    r_pc = "loaded" =>
        /\ r_name \in DOMAIN saved
        /\ r_model = saved[r_name].m
        /\ r_optimizer = saved[r_name].o
        /\ r_ret = Some(saved[r_name].e)

C5_Witness ==
    /\ r_pc = "loaded"
    /\ r_name = "x"
    /\ DOMAIN saved = CallerNames
    /\ saved["x"].e = 2
    /\ saved["x.pth"].e = 0
    /\ r_ret = Some(2)
    /\ r_model = 1
    /\ r_optimizer = [step |-> 1, exp_avg |-> 1]
    /\ model # r_model

(* ------------------------------- C6 ----------------------------------- *)

\* optimization steps the first run has taken, from its place in the loop
StepsTaken ==
    epoch * env.n_train
    + (IF pc = "train" THEN batch_idx
       ELSE IF pc \in {"test_begin", "test", "checkpoint", "log"}
            THEN env.n_train
            ELSE 0)

\* optimization steps the resumed run stands for, from its place in the loop
StepsResumed == r_epoch * env.n_train + r_idx

\* the resumed run has trained on every batch the first run has
InStep == r_pc = "resumed" /\ pc # "aborted" /\ StepsResumed = StepsTaken

C7_MissingCheckpointRaises ==
    [][(r_pc = "idle" /\ r_pc' # "idle" /\ r_name' \notin DOMAIN saved) =>
        /\ r_pc' = "raised"
        /\ error' = "FileNotFoundError"
        /\ r_ret' = None
        /\ r_model' = r_model
        /\ r_optimizer' = r_optimizer]_vars

C7_Witness ==
    /\ r_pc = "raised"
    /\ r_name = "x"
    /\ DOMAIN saved = {"x.pth"}
    /\ error = "FileNotFoundError"
    /\ r_model = 1
    /\ r_optimizer.step = 1

(* ------------------------------- C8 ----------------------------------- *)

\* the positions of main before the epoch loop
SetupPcs == {"login", "init", "create_model", "check_data", "create_optimizer"}

\* C8: with an unknown model or optimizer identifier main never gets past
\* its set-up: it ends with a fatal error, no phase has begun, no batch was
\* processed, no optimizer step taken and no file written.
C8_UnknownIdentifierFatal ==
    (args.model_name # "runet" \/ args.optimizer # "adam") =>
        /\ pc \in SetupPcs \cup {"aborted"}
        /\ pc = "aborted" => error \in {"ValueError", "Exception"}
        /\ PhaseTrace = <<>>
        /\ optimizer.step = 0
        /\ model = InitialModel
        /\ files = EmptyDict

C8_Witness ==
    /\ args.model_name = "runet"
    /\ args.optimizer = "sgd"
    /\ pc = "aborted"
    /\ error = "ValueError"

(* ------------------------------- C9 ----------------------------------- *)

RECURSIVE SumSeq(_)
\* the sum of a sequence of numbers, left to right
SumSeq(q) == IF q = <<>> THEN 0 ELSE SumSeq(SubSeq(q, 1, Len(q) - 1)) + Last(q)

\* C9: the train_loss of an epoch's log record is the sum of the losses of
\* exactly the batches of that epoch's train phase (one loss per training
\* batch, starting from 0 in every phase).
C9_TrainLossIsSum ==
    (trace # <<>> /\ Last(trace).op = "log") =>
        /\ "train_loss" \in DOMAIN wandb_log
        /\ Len(phase_losses) = env.n_train
        /\ wandb_log["train_loss"] = SumSeq(phase_losses)

C9_Witness ==
    /\ trace # <<>>
    /\ Last(trace).op = "log"
    /\ Last(trace).epoch = 1
    /\ Len(phase_losses) = 2
    /\ wandb_log["train_loss"] = 5

(* ------------------------------- C10 ---------------------------------- *)

\* what a successful run leaves: the final model file, written between the
\* last log call and finish
FinalModelSaved ==
    LET n == Len(trace) IN
    /\ save_path # None
    /\ (save_path[1] \o "/runet.pth") \in DOMAIN files
    /\ files[save_path[1] \o "/runet.pth"] = [model_state_dict |-> model]
    /\ DOMAIN files[save_path[1] \o "/runet.pth"] = {"model_state_dict"}
    /\ n >= 2
    /\ trace[n].op = "finish"
    /\ trace[n - 1].op = "save_model"
    /\ Cardinality(At("save_model")) = 1
    /\ args.epochs > 0 => trace[n - 2] = Event("log", args.epochs - 1, -1)

\* C10 as stated: every run that did not fail persists the final model
\* weights alone, after the last log call, and only then calls finish.
C10_Original == pc = "done" => FinalModelSaved

\* C10 (amended): a run that did not fail and has a save path (configured,
\* or the sink's run directory) persists the final model weights alone under
\* <model name>.pth after the last epoch's log call, for every number of
\* epochs, and only then calls finish; without a save path nothing is
\* persisted and finish is still called last; finish is never called before
\* the loop has ended.
C10_FinalModelThenFinish ==
    /\ pc = "done" =>
        /\ Last(trace).op = "finish"
        /\ save_path # None => FinalModelSaved
        /\ save_path = None => (At("save_model") = {} /\ files = EmptyDict)
    /\ At("finish") # {} => pc = "done"
    /\ At("save_model") # {} => pc \in {"finish", "done"}

C10_Witness ==
    /\ pc = "done"
    /\ args.epochs = 0
    /\ FinalModelSaved

(* ------------------------------- C11 ---------------------------------- *)

\* two quotients with non-zero denominators are the same number
SameFrac(a, b) == a.num * b.den = b.num * a.den

\* the quotients a and b add up to 1
SumIsOne(a, b) == a.num * b.den + b.num * a.den = a.den * b.den

\* main is past line 251
CriterionChosen == criterion # None

\* C11: with balance weights (w0, w1) the loss is the weighted cross-entropy
\* and its class weights are w0 / (w0 + w1) and w1 / (w0 + w1); wherever
\* these quotients exist (w0 + w1 is not 0) they add up to 1 and are in the
\* ratio w0 : w1, and for (1, 3) they are 1/4 and 3/4; without balance
\* weights the loss is the unweighted BCE-with-logits.
C11_WeightsNormalised ==
    CriterionChosen =>
        LET bc == args.balance_classes
            c == criterion[1]
        IN  IF bc = None
            THEN c.kind = "BCEWithLogitsLoss" /\ c.weight = None
            ELSE LET w == bc[1]
                     v == c.weight[1]
                 IN  /\ c.kind = "CrossEntropyLoss"
                     /\ Len(v) = 2
                     /\ \A i \in 1..2 :
                         /\ v[i].den = w[1] + w[2]
                         /\ v[i].num = w[i]
                     /\ w[1] + w[2] # 0 =>
                         /\ SumIsOne(v[1], v[2])
                         /\ v[1].num * v[2].den * w[2]
                                = v[2].num * v[1].den * w[1]
                     /\ w = <<1, 3>> =>
                         /\ SameFrac(v[1], Frac(1, 4))
                         /\ SameFrac(v[2], Frac(3, 4))

C11_Witness ==
    /\ CriterionChosen
    /\ args.balance_classes = Some(<<1, 3>>)
    /\ criterion[1].kind = "CrossEntropyLoss"
    /\ SameFrac(criterion[1].weight[1][2], Frac(3, 4))

(* ------------------------------- C12 ---------------------------------- *)

\* the step taken is a batch of the train phase
IsTrainBatchStep ==
    /\ pc = "train"
    /\ Len(trace') = Len(trace) + 1
    /\ Last(trace').op \in {"train_batch", "batch_failed"}

\* what a step may do to the model and the optimizer
ModelFrame ==
    /\ pc \in {"test_begin", "test"} => UNCHANGED <<model, optimizer>>
    /\ (model' # model \/ optimizer' # optimizer) =>
        /\ IsTrainBatchStep
        /\ optimizer'.step = optimizer.step + 1
    /\ (pc = "train" /\ batch_idx' = batch_idx + 1) =>
        optimizer'.step = optimizer.step + 1

\* the optimizer has taken one step for every training batch processed (and,
\* in an aborted run, at most one more for the batch that failed)
OneStepPerTrainBatch ==
    LET done == Cardinality(At("train_batch")) IN
    /\ optimizer.step >= done
    /\ optimizer.step <= done + Cardinality(At("batch_failed"))
    /\ pc # "aborted" => optimizer.step = done

\* C12: no step of the test phase changes the model parameters or the
\* optimizer state; they change only in a step that processes a training
\* batch, by exactly one optimizer update, and every training batch
\* processed brings exactly one update.
C12_TestLeavesModel ==
    /\ [][ModelFrame]_vars
    /\ []OneStepPerTrainBatch

C12_Witness ==
    /\ pc = "test"
    /\ epoch = 1
    /\ batch_idx = 2
    /\ Last(trace).op = "test_batch"
    /\ optimizer.step = 4
    /\ model # InitialModel

(* ------------------------------- C13 ---------------------------------- *)

\* the stored files that are checkpoint records
CheckpointFiles(fs) == {f \in DOMAIN fs : "epoch" \in DOMAIN fs[f]}

\* main stands at the end of epoch e: its train and test phases are over and
\* the next epoch has not begun
AtEndOfEpoch(e) ==
    /\ pc = "checkpoint"
    /\ epoch = e
    /\ Cardinality(At("train_end")) = e + 1
    /\ Cardinality(At("test_end")) = e + 1
    /\ optimizer.step = (e + 1) * env.n_train

\* a step stores a checkpoint record only at the end of an epoch, with that
\* epoch and the model and optimizer state of that moment in one record, and
\* changes no record stored before
CheckpointWrite ==
    \A f \in CheckpointFiles(files') :
        IF f \in DOMAIN files
        THEN files'[f] = files[f]
        ELSE /\ AtEndOfEpoch(files'[f].epoch)
             /\ files'[f].model_state_dict = model
             /\ files'[f].optimizer_state_dict = optimizer
             /\ DOMAIN files'[f]
                    = {"epoch", "model_state_dict", "optimizer_state_dict"}

\* every stored record carries the optimizer state of the end of its epoch,
\* lies under the name of its epoch, and holds the current state as long as
\* its epoch lasts
CheckpointsMatchEpoch ==
    \A f \in CheckpointFiles(files) :
        LET r == files[f] IN
        /\ r.epoch \in 0..(args.epochs - 1)
        /\ r.optimizer_state_dict.step = (r.epoch + 1) * env.n_train
        /\ save_path # None
        /\ f = CheckpointFile(save_path[1],
                              CheckpointName(args.model_name, r.epoch))
        /\ (pc = "log" /\ epoch = r.epoch) =>
            (r.model_state_dict = model /\ r.optimizer_state_dict = optimizer)

\* C13: a stored checkpoint whose epoch field is e holds the model
\* parameters and the optimizer state as they were at the end of epoch e
\* (after e + 1 train phases), both taken at the same moment into one
\* record that is never changed afterwards.
C13_CheckpointConsistent ==
    /\ [][CheckpointWrite]_vars
    /\ []CheckpointsMatchEpoch

C13_Witness ==
    /\ pc = "done"
    /\ args.epochs = 2
    /\ args.checkpoint_epoch = Some(1)
    /\ env.n_train = 2
    /\ save_path = Some("out")
    /\ Cardinality(CheckpointFiles(files)) = 2
    /\ files["out/runet-checkpoint-0000.pth.pth"].optimizer_state_dict.step = 2
    /\ files["out/runet-checkpoint-0001.pth.pth"].optimizer_state_dict.step = 4
    /\ files["out/runet-checkpoint-0000.pth.pth"].model_state_dict # model

(* ------------------------------- C14 ---------------------------------- *)

RECURSIVE EvalFold(_, _)
\* the accumulator st after one update for every batch of q, in order
EvalFold(st, q) ==
    IF q = <<>> THEN st ELSE EvalFold(EvalUpdate(st, Head(q)), Tail(q))

\* the orders in which the train loader can have yielded what it has yielded
\* of n batches in the running epoch
TrainOrders(left, n) ==
    {q \in [1..(n - left[1] - left[2]) -> BatchKinds] :
        \A b \in BatchKinds :
            Cardinality({i \in DOMAIN q : q[i] = b}) = TrainData(n)[b] - left[b]}

\* the first k batches of a test phase
TestBatches(k) == [i \in 1..k |-> TestData(i - 1, env.n_test)]

\* the accumulator states a phase over the batches q, started by a reset,
\* can report
FreshMetrics(q) == EvalMetrics(EvalFold(EvalReset, q))

\* what a step does to the accumulator: a reset where a phase starts, one
\* update where a batch was processed, nothing anywhere else
EvalFrame ==
    IF pc' \in {"train", "test"} /\ pc' # pc
    THEN evaluations' = EvalReset /\ batch_idx' = 0
    ELSE IF pc \in {"train", "test"} /\ batch_idx' = batch_idx + 1
         THEN evaluations' = EvalUpdate(evaluations, batch')
         ELSE evaluations' = evaluations

\* the accumulator and the reported metrics come from the batches of the
\* phase alone
EvalOfPhaseOnly ==
    /\ pc = "train" =>
        \E q \in TrainOrders(train_loader, env.n_train) :
            /\ Len(q) = batch_idx
            /\ evaluations = EvalFold(EvalReset, q)
    /\ pc = "test" => evaluations = EvalFold(EvalReset, TestBatches(batch_idx))
    /\ (pc \in {"checkpoint", "log"} /\ env.n_train > 0) =>
        \E q \in TrainOrders([b \in BatchKinds |-> 0], env.n_train) :
            \A k \in MetricNames : train_log[k] = FreshMetrics(q)[k]
    /\ (pc \in {"checkpoint", "log"} /\ env.n_test > 0) =>
        \A k \in MetricNames :
            test_log[k] = FreshMetrics(TestBatches(env.n_test))[k]

\* C14: the accumulator is reset in the step that starts a phase, before its
\* first batch, is updated once by every batch of the phase and is touched
\* by nothing else; so the accumulator, and the metrics a phase reports, are
\* those of a fresh accumulator fed the batches of that phase alone, in
\* every epoch, although train and test share the one object.
C14_AccumulatorPerPhase ==
    /\ [][EvalFrame]_vars
    /\ []EvalOfPhaseOnly

C14_Witness ==
    /\ pc = "log"
    /\ epoch = 1
    /\ env.n_train = 2
    /\ env.n_test = 2
    /\ train_log["accuracy"] = 2
    /\ test_log["accuracy"] = 2
    /\ test_log["recall"] = 3

(* ------------------------------- C15 ---------------------------------- *)

\* the calls the telemetry sink has seen, in order
SinkTrace == SelectSeq(trace, LAMBDA ev : ev.op \in SinkOps)

\* one log call for each of the epochs 0 .. E - 1, in increasing order
LogCalls(E) == [i \in 1..E |-> Event("log", i - 1, -1)]

\* the sink calls of the claim for a run of E epochs: init, the logs, finish
SinkCallsClaimed(E) ==
    <<Event("init", -1, -1)>> \o LogCalls(E) \o <<Event("finish", -1, -1)>>

\* the sink calls of main for a run of E epochs: login comes first
SinkCallsOfMain(E) == <<Event("login", -1, -1)>> \o SinkCallsClaimed(E)

\* init precedes every phase; the log call of epoch e follows the test phase
\* of e and the checkpoint of e (which is there when due) and precedes the
\* train phase of e + 1
SinkOrder ==
    /\ \A i \in At("init"), j \in 1..Len(trace) :
        trace[j].op \in PhaseOps => i < j
    /\ \A i \in At("log") :
        LET e == trace[i].epoch IN
        /\ \E j \in AtEpoch("test_end", e) : j < i
        /\ \A j \in AtEpoch("save_checkpoint", e) : j < i
        /\ (save_path # None /\ IntervalDue(e)) =>
            trace[i - 1] = Event("save_checkpoint", e, -1)
        /\ \A j \in AtEpoch("train_begin", e + 1) : i < j
        /\ \A j \in 1..Len(trace) :
            (trace[j].op \in PhaseOps /\ trace[j].epoch <= e) => j < i

\* C15 as stated: in a successful run the sink observes exactly one init
\* before any phase, one log call per epoch in increasing order, then one
\* finish, each log call after its epoch's test phase and checkpoint and
\* before the next train phase.
C15_Original ==
    /\ pc = "done" => SinkTrace = SinkCallsClaimed(args.epochs)
    /\ SinkOrder

\* C15 (amended): in a successful run the sink observes exactly one login,
\* then one init before any phase, then one log call per epoch in increasing
\* epoch order, then one finish; at every moment of any run the calls so far
\* are an initial part of that sequence; the log call of epoch e comes after
\* the test phase of e and after the checkpoint save of e when one is due,
\* and before the train phase of e + 1.
C15_SinkSequence ==
    /\ IsPrefix(SinkTrace, SinkCallsOfMain(args.epochs))
    /\ pc = "done" => SinkTrace = SinkCallsOfMain(args.epochs)
    /\ SinkOrder

C15_Witness ==
    /\ pc = "done"
    /\ args.epochs = 2
    /\ Len(SinkTrace) = 5
    /\ CheckpointSaved(1)
    /\ ~CheckpointSaved(0)
    /\ env.n_test > 0

(* ------------------------------- C16 ---------------------------------- *)

\* one artifact for each of the n samples of a batch, in sample order
OnePerSample(q, n) ==
    /\ Len(q) = n
    /\ \A i \in 1..n : q[i].sample = i - 1

\* the number of samples of the first test batch (0 without test batches)
FirstTestBatchSize == IF env.n_test = 0 THEN 0 ELSE TestData(0, env.n_test)

\* only the step of the test batch with index 0 adds artifacts, those of its
\* own samples
CaptureStep ==
    /\ (pc = "test" /\ batch_idx' = batch_idx + 1 /\ batch_idx # 0) =>
        predictions' = predictions
    /\ (pc = "test" /\ batch_idx' = batch_idx + 1 /\ batch_idx = 0) =>
        /\ predictions = <<>>
        /\ OnePerSample(predictions', batch')
    /\ pc \notin {"test", "test_begin"} => predictions' = predictions

\* once the first test batch is through, the list is that of its samples,
\* in the running phase, in the summary returned and in the record logged
PredictionsOfFirstBatch ==
    /\ (pc = "test" /\ batch_idx >= 1) =>
        OnePerSample(predictions, FirstTestBatchSize)
    /\ pc \in {"checkpoint", "log"} =>
        /\ OnePerSample(test_log["prediction"], FirstTestBatchSize)
        /\ OnePerSample(log_data["test_prediction"], FirstTestBatchSize)
    /\ (trace # <<>> /\ Last(trace).op = "log") =>
        OnePerSample(wandb_log["test_prediction"], FirstTestBatchSize)

\* C16: in every test phase artifacts are captured only while the batch with
\* index 0 is processed; the list under 'prediction' holds exactly one
\* artifact per sample of the first test batch, in sample order, however
\* many test batches follow.
C16_ArtifactsFirstBatchOnly ==
    /\ [][CaptureStep]_vars
    /\ []PredictionsOfFirstBatch

C16_Witness ==
    /\ pc = "log"
    /\ epoch = 1
    /\ env.n_test = 2
    /\ Len(test_log["prediction"]) = 2
    /\ test_log["prediction"][2].sample = 1

(* ------------------------------- C17 ---------------------------------- *)

\* the epochs of a run of E epochs at which interval k >= 1 is due
DueEpochs(E, k) == {e \in 0..(E - 1) : (e + 1) % k = 0}

\* the file main writes the checkpoint of epoch e to
CheckpointFileOf(e) ==
    CheckpointFile(save_path[1], CheckpointName(args.model_name, e))

\* no step changes or removes a file that is stored
NoOverwrite ==
    \A f \in DOMAIN files : f \in DOMAIN files' /\ files'[f] = files[f]

\* what a successful run with a save path and interval k >= 1 has written
CheckpointsWritten ==
    (/\ pc = "done"
     /\ save_path # None
     /\ args.checkpoint_epoch # None
     /\ args.checkpoint_epoch[1] >= 1) =>
        LET E == args.epochs
            k == args.checkpoint_epoch[1]
            final == FinalModelFile(save_path[1], args.model_name)
        IN  /\ Cardinality(At("save_checkpoint")) = E \div k
            /\ {trace[i].epoch : i \in At("save_checkpoint")} = DueEpochs(E, k)
            /\ DueEpochs(E, k) = {j * k - 1 : j \in 1..(E \div k)}
            /\ CheckpointFiles(files) = {CheckpointFileOf(e) : e \in DueEpochs(E, k)}
            /\ Cardinality(CheckpointFiles(files)) = E \div k
            /\ \A e \in DueEpochs(E, k) : files[CheckpointFileOf(e)].epoch = e
            /\ \A e1, e2 \in 0..(E - 1) :
                e1 # e2 => CheckpointFileOf(e1) # CheckpointFileOf(e2)
            /\ \A e \in 0..(E - 1) : CheckpointFileOf(e) # final
            /\ DOMAIN files = CheckpointFiles(files) \cup {final}
            /\ final \notin CheckpointFiles(files)

\* C17: a successful run of E epochs with a save path and a checkpoint
\* interval k >= 1 writes exactly floor(E / k) checkpoints, those of the
\* epochs k - 1, 2k - 1, ...; their files are pairwise distinct and distinct
\* from the final model's file, and no step of the run overwrites a file
\* written before.
C17_CheckpointCount ==
    /\ [][NoOverwrite]_vars
    /\ []CheckpointsWritten

C17_Witness ==
    /\ pc = "done"
    /\ args.epochs = 2
    /\ args.checkpoint_epoch = Some(1)
    /\ save_path # None
    /\ Cardinality(DOMAIN files) = 3
    /\ DueEpochs(2, 1) = {0, 1}

(* ------------------------------- C18 ---------------------------------- *)

\* main is past line 203 without a save path: --save-path was not given and
\* wandb.run is None
NoSavePath == pc \notin {"login", "init"} /\ save_path = None

\* C18: without a configured save path and without a run of the sink, the
\* run writes nothing: no checkpoint, whatever the interval and the epoch,
\* and no final model; the checkpoint condition raises nothing, and a run
\* that no batch fails still trains, tests and logs every epoch and
\* finishes.
C18_NoSavePathNoArtifact ==
    NoSavePath =>
        /\ args.save_path = None
        /\ files = EmptyDict
        /\ At("save_checkpoint") = {}
        /\ At("save_model") = {}
        /\ error # "ZeroDivisionError"
        /\ \A e \in 0..(epoch - 1) : Cardinality(AtEpoch("log", e)) = 1
        /\ pc = "aborted" => error \in {"ValueError", "Exception", "RuntimeError"}
        /\ pc = "done" =>
            /\ PhaseTrace = ExpectedRun(args.epochs, env.n_train, env.n_test)
            /\ Cardinality(At("log")) = args.epochs
            /\ epoch = args.epochs

C18_Witness ==
    /\ NoSavePath
    /\ pc = "done"
    /\ args.epochs = 2
    /\ args.checkpoint_epoch = Some(1)
    /\ env.n_train = 2
    /\ env.n_test = 2
    /\ Cardinality(At("log")) = 2
    /\ files = EmptyDict

(* ------------------------------- C19 ---------------------------------- *)

\* the metric entries of the summary d are those the accumulator returned
\* for the state st
MetricsAre(d, st) ==
    /\ MetricNames \subseteq DOMAIN d
    /\ \A k \in MetricNames : d[k] = EvalMetrics(st)[k]

\* the summary d has no metric entry
NoMetrics(d) == MetricNames \cap DOMAIN d = {}

\* the summaries of train and test, while they are built and once returned
SummaryIsLastUpdate ==
    /\ (pc \in {"train", "test"} /\ batch_idx > 0) =>
        MetricsAre(phase_log, evaluations)
    /\ (pc \in {"train", "test"} /\ batch_idx = 0) => NoMetrics(phase_log)
    /\ pc = "test_begin" =>
        IF env.n_train > 0
        THEN /\ MetricsAre(train_log, evaluations)
             /\ DOMAIN train_log = {"loss"} \cup MetricNames
        ELSE /\ DOMAIN train_log = {"loss"}
             /\ train_log["loss"] = 0
    /\ pc \in {"checkpoint", "log"} =>
        IF env.n_test > 0
        THEN /\ MetricsAre(test_log, evaluations)
             /\ DOMAIN test_log = {"prediction"} \cup MetricNames
        ELSE /\ DOMAIN test_log = {"prediction"}
             /\ test_log["prediction"] = <<>>

\* the record of an epoch has the metric keys of the phases that had batches
RecordKeys ==
    (trace # <<>> /\ Last(trace).op = "log") =>
        DOMAIN wandb_log =
            {"train_loss", "test_prediction"}
            \cup (IF env.n_train > 0 THEN {"train_" \o k : k \in MetricNames}
                  ELSE {})
            \cup (IF env.n_test > 0 THEN {"test_" \o k : k \in MetricNames}
                  ELSE {})

\* C19: the metric values of a phase summary are those returned by the last
\* accumulator update of the phase; a phase without batches has no metric
\* key in its summary, which is {loss: 0} for train and {prediction: []} for
\* test, and the epoch's log record then lacks the keys of that phase, such
\* as test_accuracy.
C19_SummaryIsLastUpdate == SummaryIsLastUpdate /\ RecordKeys

C19_Witness ==
    /\ trace # <<>>
    /\ Last(trace).op = "log"
    /\ env.n_test = 0
    /\ env.n_train = 2
    /\ "test_accuracy" \notin DOMAIN wandb_log
    /\ wandb_log["train_accuracy"] = 2
    /\ wandb_log["test_prediction"] = <<>>

(* ------------------------------- C20 ---------------------------------- *)

\* main is past line 203 with a save path, and --checkpoint-epoch is 0
ZeroInterval ==
    /\ pc \notin {"login", "init"}
    /\ save_path # None
    /\ args.checkpoint_epoch = Some(0)

\* the train and test phases of epoch 0 have run in full, and nothing since
EpochZeroRan ==
    /\ epoch = 0
    /\ PhaseTrace = ExpectedRun(1, env.n_train, env.n_test)
    /\ Last(trace) = Event("test_end", 0, -1)

\* evaluating the cadence condition with interval 0 raises, and does nothing
\* else
ZeroCadenceRaises ==
    (ZeroInterval /\ pc = "checkpoint") =>
        /\ pc' = "aborted"
        /\ error' = "ZeroDivisionError"
        /\ UNCHANGED <<files, trace, wandb_log, epoch, model, optimizer>>

\* what a run with a save path and interval 0 can have done
ZeroIntervalRun ==
    ZeroInterval =>
        /\ At("log") = {}
        /\ At("save_checkpoint") = {}
        /\ CheckpointFiles(files) = {}
        /\ wandb_log = EmptyDict
        /\ epoch = 0
        /\ pc = "checkpoint" => EpochZeroRan
        /\ error = "ZeroDivisionError" => (pc = "aborted" /\ EpochZeroRan)
        /\ args.epochs > 0 =>
            /\ pc \notin {"log", "finish", "done"}
            /\ At("save_model") \cup At("finish") = {}
            /\ files = EmptyDict

\* C20: with a save path and --checkpoint-epoch 0, a run that has an epoch 0
\* raises ZeroDivisionError when it evaluates the cadence condition of epoch
\* 0: the train and test phases of epoch 0 have run in full by then, and no
\* log record, checkpoint, final model or finish call comes before or after.
C20_ZeroIntervalAborts ==
    /\ [][ZeroCadenceRaises]_vars
    /\ []ZeroIntervalRun

C20_Witness ==
    /\ ZeroInterval
    /\ pc = "aborted"
    /\ error = "ZeroDivisionError"
    /\ args.epochs = 2
    /\ env.n_train = 2
    /\ env.n_test = 2
    /\ EpochZeroRan
    /\ files = EmptyDict

=============================================================================
